---- MODULE Spec2Model ----
(***************************************************************************)
(* A model of meter-go's transaction library: the fixed-width identifier   *)
(* parsers (package meter), Clause and Transaction (package tx), their RLP *)
(* encoding, the signing hash, the transaction id and the expiry test.     *)
(*                                                                         *)
(* Values are modelled at two levels.  The "value level" is what an object *)
(* holds once every pointer is followed: records of integers and byte      *)
(* sequences, on which the codec and the hashes work.  The "heap level"    *)
(* keeps Go's pointers and slices as references into maps of cells, so     *)
(* that sharing between a value and its copy can be observed.              *)
(*                                                                         *)
(* An optional (a Go pointer that may be nil) is a sequence: <<>> is nil,  *)
(* <<v>> is a pointer to v.                                                *)
(***************************************************************************)
EXTENDS Integers, Sequences, FiniteSets, TLC

(***************************************************************************)
(* Bounds of the model.  Go's fixed widths are scaled down: uint32 has     *)
(* WordBits bits and uint64 twice as many, an Address has AddressLength    *)
(* bytes and a Bytes32 has Bytes32Length bytes.                            *)
(***************************************************************************)
WordBits == 9
AddressLength == 1
Bytes32Length == 2
MaxStrLen == 6
MaxClauses == 2

RECURSIVE Pow2(_)
Pow2(n) == IF n = 0 THEN 1 ELSE 2 * Pow2(n - 1)

Uint32Mod == Pow2(WordBits)
Uint64Mod == Pow2(2 * WordBits)
MaxUint32 == Uint32Mod - 1
MaxUint64 == Uint64Mod - 1

None == <<>>
Some(x) == <<x>>

Zeros(n) == [i \in 1..n |-> 0]

(***************************************************************************)
(* RLP, as rlp.Encode writes it.                                           *)
(***************************************************************************)
RECURSIVE BigEndian(_)
BigEndian(n) == IF n = 0 THEN <<>> ELSE Append(BigEndian(n \div 256), n % 256)

RECURSIVE FromBigEndian(_)
FromBigEndian(b) ==
    IF b = <<>> THEN 0
    ELSE 256 * FromBigEndian(SubSeq(b, 1, Len(b) - 1)) + b[Len(b)]

\* The header of a string (base 128) or of a list (base 192) of `size` bytes.
EncHeader(base, size) ==
    IF size < 56 THEN <<base + size>>
    ELSE <<base + 55 + Len(BigEndian(size))>> \o BigEndian(size)

\* A byte string; a single byte below 128 is its own encoding.
EncString(b) ==
    IF Len(b) = 1 /\ b[1] < 128 THEN b ELSE EncHeader(128, Len(b)) \o b

\* An unsigned integer: its big-endian bytes without leading zeros.
EncUint(n) == EncString(BigEndian(n))

\* A list whose elements' encodings are concatenated in `payload`.
EncList(payload) == EncHeader(192, Len(payload)) \o payload

\* A pointer to a byte array; nil is the empty string.
EncOptBytes(p) == IF p = None THEN <<128>> ELSE EncString(p[1])

RECURSIVE Concat(_)
Concat(ss) == IF ss = <<>> THEN <<>> ELSE Head(ss) \o Concat(Tail(ss))

\* An interface{} item of Reserved: a byte string, or a list of items.
RECURSIVE EncItem(_)
EncItem(it) ==
    IF it.kind = "String" THEN EncString(it.bytes)
    ELSE EncList(Concat([i \in 1..Len(it.items) |-> EncItem(it.items[i])]))

StrItem(b) == [kind |-> "String", bytes |-> b, items |-> <<>>]
ListItem(xs) == [kind |-> "List", bytes |-> <<>>, items |-> xs]

\* big.Int values below zero cannot be encoded: rlp.Encode returns an error.
ClauseEncodable(c) == c.Value >= 0

clauseBodyFields(c) ==
    <<EncOptBytes(c.To), EncUint(c.Value), EncUint(c.Token), EncString(c.Data)>>

\* Clause.EncodeRLP: the clause body as a list of its four fields.
ClauseEncodeRLP(c) == EncList(Concat(clauseBodyFields(c)))

EncClauses(cs) == EncList(Concat([i \in 1..Len(cs) |-> ClauseEncodeRLP(cs[i])]))

EncReserved(rs) == EncList(Concat([i \in 1..Len(rs) |-> EncItem(rs[i])]))

TxEncodable(t) == \A i \in 1..Len(t.Clauses) : ClauseEncodable(t.Clauses[i])

\* Mutant of SigningFields: the signature is hashed with the rest.
SigningFieldsWithSignature(t) ==
    << EncUint(t.ChainTag), EncUint(t.BlockRef), EncUint(t.Expiration),
       EncClauses(t.Clauses), EncUint(t.GasPriceCoef), EncUint(t.Gas),
       EncOptBytes(t.DependsOn), EncUint(t.Nonce), EncReserved(t.Reserved),
       EncString(t.Signature) >>

\* The encodings of the nine fields SigningHash lists, in the order it lists them.
SigningFields(t) ==
    << EncUint(t.ChainTag), EncUint(t.BlockRef), EncUint(t.Expiration),
       EncClauses(t.Clauses), EncUint(t.GasPriceCoef), EncUint(t.Gas),
       EncOptBytes(t.DependsOn), EncUint(t.Nonce), EncReserved(t.Reserved) >>

\* The encodings of the ten fields of struct body, in declaration order.
bodyFields(t) ==
    << EncUint(t.ChainTag), EncUint(t.BlockRef), EncUint(t.Expiration),
       EncClauses(t.Clauses), EncUint(t.GasPriceCoef), EncUint(t.Gas),
       EncOptBytes(t.DependsOn), EncUint(t.Nonce), EncReserved(t.Reserved),
       EncString(t.Signature) >>

\* Transaction.EncodeRLP; the error is that of a negative clause value.
EncodeRLP(t) ==
    IF TxEncodable(t) THEN [err |-> "", bytes |-> EncList(Concat(bodyFields(t)))]
    ELSE [err |-> "ErrNegativeBigInt", bytes |-> <<>>]

(***************************************************************************)
(* RLP decoding, as rlp.Stream reads it.  A stream is [b, limited]: the    *)
(* input bytes, and whether the stream knows the input's length            *)
(* (rlp.DecodeBytes) or reads until the reader ends (rlp.Decode).  pos is  *)
(* the index of the next byte; lim is the index after the last byte of the *)
(* enclosing list, 0 at top level.  A result is [err, val, pos], err = ""  *)
(* on success.                                                             *)
(***************************************************************************)
Err(e) == [err |-> e, val |-> <<>>, pos |-> 0]
Ok(v, p) == [err |-> "", val |-> v, pos |-> p]

Remaining(s, pos) == Len(s.b) + 1 - pos

\* Stream.willRead: n bytes must fit the enclosing list and the known input.
WillRead(s, pos, lim, n) ==
    IF lim # 0 /\ n > lim - pos THEN "ErrElemTooLarge"
    ELSE IF s.limited /\ n > Remaining(s, pos) THEN "ErrValueTooLarge"
    ELSE ""

\* Mutant of ReadFull: a short read goes unnoticed and the buffer's zeros are
\* taken for input.
ReadFullPadded(s, pos, lim, n) ==
    IF WillRead(s, pos, lim, n) # "" THEN Err(WillRead(s, pos, lim, n))
    ELSE Ok([i \in 1..n |-> IF pos + i - 1 <= Len(s.b) THEN s.b[pos + i - 1] ELSE 0],
            pos + n)

\* Stream.readFull / readByte: a reader that ends early is an unexpected EOF.
ReadFull(s, pos, lim, n) ==
    IF WillRead(s, pos, lim, n) # "" THEN Err(WillRead(s, pos, lim, n))
    ELSE IF n > Remaining(s, pos) THEN Err("ErrUnexpectedEOF")
    ELSE Ok(SubSeq(s.b, pos, pos + n - 1), pos + n)

\* Stream.readUint for a long header's size, from the bytes r read: no leading
\* zero, and not below 56.
SizeOf(r) ==
    IF r.err # "" THEN r
    ELSE IF r.val[1] = 0 THEN Err("ErrCanonSize")
    ELSE IF FromBigEndian(r.val) < 56 THEN Err("ErrCanonSize")
    ELSE Ok(FromBigEndian(r.val), r.pos)

ReadSize(s, pos, lim, n) == SizeOf(ReadFull(s, pos, lim, n))

KindOf(kind, size, byteval, pos) ==
    [err |-> "", kind |-> kind, size |-> size, byteval |-> byteval, pos |-> pos]
KindErr(e) == [err |-> e, kind |-> "", size |-> 0, byteval |-> 0, pos |-> 0]

LongKind(kind, z) ==
    IF z.err # "" THEN KindErr(z.err) ELSE KindOf(kind, z.val, 0, z.pos)

\* Stream.readKind, from the header byte h read: at top level the end of the
\* input is io.EOF.
HeaderKind(s, lim, h) ==
    IF h.err # "" THEN
        KindErr(IF lim = 0 /\ h.err \in {"ErrUnexpectedEOF", "ErrValueTooLarge"}
                THEN "EOF" ELSE h.err)
    ELSE IF h.val[1] < 128 THEN KindOf("Byte", 0, h.val[1], h.pos)
    ELSE IF h.val[1] < 184 THEN KindOf("String", h.val[1] - 128, 0, h.pos)
    ELSE IF h.val[1] < 192 THEN
        LongKind("String", ReadSize(s, h.pos, lim, h.val[1] - 183))
    ELSE IF h.val[1] < 248 THEN KindOf("List", h.val[1] - 192, 0, h.pos)
    ELSE LongKind("List", ReadSize(s, h.pos, lim, h.val[1] - 247))

ReadKind(s, pos, lim) == HeaderKind(s, lim, ReadFull(s, pos, lim, 1))

\* Stream.Kind's check of the size k read against what is left of the list or
\* of the input.
CheckSize(s, lim, k) ==
    IF k.err # "" THEN k
    ELSE IF lim # 0 /\ k.size > lim - k.pos THEN KindErr("ErrElemTooLarge")
    ELSE IF lim = 0 /\ s.limited /\ k.size > Remaining(s, k.pos)
        THEN KindErr("ErrValueTooLarge")
    ELSE k

\* Stream.Kind: the next value's kind and size; EOL at the end of the list.
Kind(s, pos, lim) ==
    IF lim # 0 /\ pos = lim THEN KindErr("EOL")
    ELSE CheckSize(s, lim, ReadKind(s, pos, lim))

\* The integer in the bytes r of a string of `size` bytes, canonical, below mod.
UintOfBytes(size, mod, r) ==
    IF r.err # "" THEN r
    ELSE IF size = 0 THEN Ok(0, r.pos)
    ELSE IF r.val[1] = 0 THEN Err("ErrCanonInt")
    ELSE IF size = 1 /\ r.val[1] < 128 THEN Err("ErrCanonSize")
    ELSE IF mod # 0 /\ FromBigEndian(r.val) >= mod THEN Err("errUintOverflow")
    ELSE Ok(FromBigEndian(r.val), r.pos)

UintOf(s, lim, mod, k) ==
    IF k.err # "" THEN Err(k.err)
    ELSE IF k.kind = "List" THEN Err("ErrExpectedString")
    ELSE IF k.kind = "Byte" THEN
        IF k.byteval = 0 THEN Err("ErrCanonInt") ELSE Ok(k.byteval, k.pos)
    ELSE UintOfBytes(k.size, mod, ReadFull(s, k.pos, lim, k.size))

\* Stream.uint and decodeBigInt: an integer below `mod` (0: unbounded).
DecUint(s, pos, lim, mod) == UintOf(s, lim, mod, Kind(s, pos, lim))

\* A string of one byte below 128 should have been that byte alone.
CanonBytes(size, r) ==
    IF r.err # "" THEN r
    ELSE IF size = 1 /\ r.val[1] < 128 THEN Err("ErrCanonSize")
    ELSE r

BytesOf(s, lim, k) ==
    IF k.err # "" THEN Err(k.err)
    ELSE IF k.kind = "List" THEN Err("ErrExpectedString")
    ELSE IF k.kind = "Byte" THEN Ok(<<k.byteval>>, k.pos)
    ELSE CanonBytes(k.size, ReadFull(s, k.pos, lim, k.size))

\* Stream.Bytes: a byte string.
DecBytes(s, pos, lim) == BytesOf(s, lim, Kind(s, pos, lim))

ByteArrayOf(s, lim, n, k) ==
    IF k.err # "" THEN Err(k.err)
    ELSE IF k.kind = "List" THEN Err("ErrExpectedString")
    ELSE IF k.kind = "Byte" THEN
        IF n = 0 THEN Err("input string too long")
        ELSE IF n > 1 THEN Err("input string too short")
        ELSE Ok(<<k.byteval>>, k.pos)
    ELSE IF n < k.size THEN Err("input string too long")
    ELSE IF n > k.size THEN Err("input string too short")
    ELSE CanonBytes(k.size, ReadFull(s, k.pos, lim, k.size))

\* decodeByteArray: a byte string of exactly n bytes.
DecByteArray(s, pos, lim, n) == ByteArrayOf(s, lim, n, Kind(s, pos, lim))

Pointer(r) == IF r.err # "" THEN r ELSE Ok(Some(r.val), r.pos)

\* Mutant of OptByteArrayOf: an empty value decodes to a pointer to zeros.
OptByteArrayOfZeros(s, lim, n, k) ==
    IF k.err # "" THEN Err(k.err)
    ELSE IF k.size = 0 /\ k.kind # "Byte" THEN Ok(Some(Zeros(n)), k.pos)
    ELSE Pointer(ByteArrayOf(s, lim, n, k))

OptByteArrayOf(s, lim, n, k) ==
    IF k.err # "" THEN Err(k.err)
    ELSE IF k.size = 0 /\ k.kind # "Byte" THEN Ok(None, k.pos)
    ELSE Pointer(ByteArrayOf(s, lim, n, k))

\* A pointer field tagged rlp:"nil": an empty value is nil, another is decoded.
DecOptByteArray(s, pos, lim, n) == OptByteArrayOf(s, lim, n, Kind(s, pos, lim))

ListOf(k) ==
    IF k.err # "" THEN Err(k.err)
    ELSE IF k.kind # "List" THEN Err("ErrExpectedList")
    ELSE Ok(k.pos + k.size, k.pos)

\* Stream.List: enter a list; val is the index after its last byte.
ListStart(s, pos, lim) == ListOf(Kind(s, pos, lim))

Wrap(kind, r) ==
    IF r.err # "" THEN r
    ELSE IF kind = "List" THEN Ok(ListItem(r.val), r.pos)
    ELSE Ok(StrItem(r.val), r.pos)

RECURSIVE DecItems(_, _, _, _), ItemOf(_, _, _), ItemsAfter(_, _, _, _)
\* decodeInterface: a string decodes to its bytes, a list to a list of items.
ItemOf(s, lim, k) ==
    IF k.err # "" THEN Err(k.err)
    ELSE IF k.kind = "List" THEN Wrap("List", DecItems(s, k.pos, k.pos + k.size, <<>>))
    ELSE Wrap("String", BytesOf(s, lim, k))

ItemsAfter(s, lim, acc, r) ==
    IF r.err # "" THEN r ELSE DecItems(s, r.pos, lim, Append(acc, r.val))

\* decodeListSlice of []interface{}: items until the list ends.
DecItems(s, pos, lim, acc) ==
    IF pos = lim THEN Ok(acc, pos)
    ELSE ItemsAfter(s, lim, acc, ItemOf(s, lim, Kind(s, pos, lim)))

ReservedOf(s, l) == IF l.err # "" THEN l ELSE DecItems(s, l.pos, l.val, <<>>)

DecReserved(s, pos, lim) == ReservedOf(s, ListStart(s, pos, lim))

clauseBodyTypes == <<"optaddr", "bigint", "uint8", "bytes">>
bodyTypes ==
    <<"uint8", "uint64", "uint32", "clauses", "uint8", "uint64", "optb32",
      "uint64", "reserved", "bytes">>

RECURSIVE DecField(_, _, _, _), DecFields(_, _, _, _, _), FieldsAfter(_, _, _, _, _),
          DecClauseList(_, _, _, _), ClausesAfter(_, _, _, _)

\* The fields of a struct in declaration order.
DecFields(types, s, pos, lim, acc) ==
    IF Len(acc) = Len(types) THEN Ok(acc, pos)
    ELSE FieldsAfter(types, s, lim, acc, DecField(types[Len(acc) + 1], s, pos, lim))

\* A field that meets the end of the list: the struct has too few elements.
FieldsAfter(types, s, lim, acc, r) ==
    IF r.err = "EOL" THEN Err("too few elements")
    ELSE IF r.err # "" THEN r
    ELSE DecFields(types, s, r.pos, lim, Append(acc, r.val))

\* After the last field the list must be at its end.
ListEnd(end, r) ==
    IF r.err # "" THEN r
    ELSE IF r.pos # end THEN Err("input list has too many elements")
    ELSE r

StructOf(types, s, l) ==
    IF l.err # "" THEN l ELSE ListEnd(l.val, DecFields(types, s, l.pos, l.val, <<>>))

\* A struct: a list of exactly its fields.
DecStruct(types, s, pos, lim) == StructOf(types, s, ListStart(s, pos, lim))

ClauseOf(r) ==
    IF r.err # "" THEN r
    ELSE Ok([To |-> r.val[1], Value |-> r.val[2], Token |-> r.val[3],
             Data |-> r.val[4]], r.pos)

\* Clause.DecodeRLP: the new clause body, or the error and the clause untouched.
ClauseDecodeRLP(s, pos, lim) == ClauseOf(DecStruct(clauseBodyTypes, s, pos, lim))

ClausesAfter(s, lim, acc, r) ==
    IF r.err # "" THEN r ELSE DecClauseList(s, r.pos, lim, Append(acc, r.val))

DecClauseList(s, pos, lim, acc) ==
    IF pos = lim THEN Ok(acc, pos)
    ELSE ClausesAfter(s, lim, acc, ClauseDecodeRLP(s, pos, lim))

ClausesOf(s, l) == IF l.err # "" THEN l ELSE DecClauseList(s, l.pos, l.val, <<>>)

\* decodeListSlice of []*Clause.
DecClauses(s, pos, lim) == ClausesOf(s, ListStart(s, pos, lim))

\* The decoder rlp picks for a field's Go type.
DecField(type, s, pos, lim) ==
    CASE type = "uint8" -> DecUint(s, pos, lim, 256)
      [] type = "uint32" -> DecUint(s, pos, lim, Uint32Mod)
      [] type = "uint64" -> DecUint(s, pos, lim, Uint64Mod)
      [] type = "bigint" -> DecUint(s, pos, lim, 0)
      [] type = "bytes" -> DecBytes(s, pos, lim)
      [] type = "optaddr" -> DecOptByteArray(s, pos, lim, AddressLength)
      [] type = "optb32" -> DecOptByteArray(s, pos, lim, Bytes32Length)
      [] type = "clauses" -> DecClauses(s, pos, lim)
      [] type = "reserved" -> DecReserved(s, pos, lim)

BodyOf(r) ==
    IF r.err # "" THEN r
    ELSE Ok([ChainTag |-> r.val[1], BlockRef |-> r.val[2],
             Expiration |-> r.val[3], Clauses |-> r.val[4],
             GasPriceCoef |-> r.val[5], Gas |-> r.val[6],
             DependsOn |-> r.val[7], Nonce |-> r.val[8],
             Reserved |-> r.val[9], Signature |-> r.val[10]], r.pos)

\* Transaction.DecodeRLP: s.Kind(), then the body struct.
DecodeRLP(s, pos, lim) ==
    IF Kind(s, pos, lim).err # "" THEN Err(Kind(s, pos, lim).err)
    ELSE BodyOf(DecStruct(bodyTypes, s, pos, lim))

\* rlp.DecodeBytes: input left after the value is an error.
OneValue(b, limited, r) ==
    IF r.err # "" THEN r
    ELSE IF limited /\ r.pos <= Len(b) THEN Err("ErrMoreThanOneValue")
    ELSE r

\* rlp.DecodeBytes(b, &tx) when limited: the whole input is one value;
\* rlp.Decode(reader, &tx) otherwise: the first value of the reader.
DecodeTx(b, limited) ==
    OneValue(b, limited, DecodeRLP([b |-> b, limited |-> limited], 1, 0))

(***************************************************************************)
(* Hashes and signatures.  meter.NewBlake2b is modelled as a collision-    *)
(* free digest that is never all zero: a digest is its input.  A           *)
(* meter.Bytes32 computed by the library is [zero, pre]; ZeroBytes32 is    *)
(* the zero value of the type.                                             *)
(***************************************************************************)
ZeroBytes32 == [zero |-> TRUE, pre |-> <<>>]
Blake2b(x) == [zero |-> FALSE, pre |-> x]
ZeroAddress == Zeros(AddressLength)

\* crypto.SigToPub followed by crypto.PubkeyToAddress: a signature is 65 bytes
\* whose last is a recovery id below 4; the address recovered is a function of
\* the hash and the signature, here of the signature's first bytes.
SigToPub(hash, sig) ==
    IF Len(sig) # 65 THEN [err |-> "invalid signature length", addr |-> ZeroAddress]
    ELSE IF sig[65] >= 4 THEN [err |-> "invalid signature recovery id", addr |-> ZeroAddress]
    ELSE [err |-> "", addr |-> [i \in 1..AddressLength |-> sig[i]]]

\* Transaction.SigningHash: zero when rlp.Encode fails, else the digest of the
\* nine fields encoded as one list.
SigningHash(t) ==
    IF ~TxEncodable(t) THEN ZeroBytes32
    ELSE Blake2b(EncList(Concat(SigningFields(t))))

\* Transaction.Signer
Signer(t) ==
    IF Len(t.Signature) = 0 THEN [err |-> "", addr |-> ZeroAddress]
    ELSE SigToPub(SigningHash(t), t.Signature)

\* Mutant of ID: the signer's error is ignored.
IDIgnoringError(t) == Blake2b(<<SigningHash(t), Signer(t).addr>>)

\* Transaction.ID
ID(t) ==
    IF Signer(t).err # "" THEN ZeroBytes32
    ELSE Blake2b(<<SigningHash(t), Signer(t).addr>>)

\* Transaction.WithSignature, at value level
WithSignature(t, sig) == [t EXCEPT !.Signature = sig]

\* Transaction.BlockRef: the uint64 in big-endian order, here as its two words.
BlockRef(t) == <<t.BlockRef \div Uint32Mod, t.BlockRef % Uint32Mod>>

\* BlockRef.Number: the big-endian uint32 in the first four bytes.
Number(br) == br[1]

\* Mutant of IsExpired: the sum is taken in uint32.
IsExpiredNarrow(t, blockNum) ==
    blockNum > (Number(BlockRef(t)) + t.Expiration) % Uint32Mod

\* Transaction.IsExpired: both operands widened to uint64 before the sum.
IsExpired(t, blockNum) ==
    blockNum > (Number(BlockRef(t)) + t.Expiration) % Uint64Mod

(***************************************************************************)
(* Identifier parsing (package meter).  A string is a sequence of          *)
(* one-character strings.                                                  *)
(***************************************************************************)
Alphabet == {"0", "a", "A", "x", "X", "g"}
HexDigits == {"0", "a", "A"}

\* strings.ToLower on the characters of the alphabet
ToLower(s) == [i \in 1..Len(s) |-> IF s[i] = "X" THEN "x" ELSE s[i]]

HexVal(c) == IF c \in {"a", "A"} THEN 10 ELSE 0

\* hex.Decode: every character must be a hex digit; two digits make a byte.
HexDecode(s) ==
    IF \E i \in 1..Len(s) : s[i] \notin HexDigits
        THEN [err |-> "InvalidByteError", val |-> <<>>]
    ELSE [err |-> "",
          val |-> [i \in 1..(Len(s) \div 2) |->
                       16 * HexVal(s[2 * i - 1]) + HexVal(s[2 * i])]]

\* Mutant of ParseFixed: the prefix is compared without strings.ToLower.
ParseFixedCaseSensitive(s, n) ==
    IF Len(s) = n * 2 THEN HexDecode(s)
    ELSE IF Len(s) = n * 2 + 2 THEN
        IF SubSeq(s, 1, 2) # <<"0", "x">>
            THEN [err |-> "invalid prefix", val |-> <<>>]
        ELSE HexDecode(SubSeq(s, 3, Len(s)))
    ELSE [err |-> "invalid length", val |-> <<>>]

\* The body shared by ParseAddress and ParseBytes32, for a width of n bytes.
ParseFixed(s, n) ==
    IF Len(s) = n * 2 THEN HexDecode(s)
    ELSE IF Len(s) = n * 2 + 2 THEN
        IF ToLower(SubSeq(s, 1, 2)) # <<"0", "x">>
            THEN [err |-> "invalid prefix", val |-> <<>>]
        ELSE HexDecode(SubSeq(s, 3, Len(s)))
    ELSE [err |-> "invalid length", val |-> <<>>]

ParseAddress(s) == ParseFixed(s, AddressLength)
ParseBytes32(s) == ParseFixed(s, Bytes32Length)

(***************************************************************************)
(* State.                                                                  *)
(*   tx      the transaction under test (value level)                      *)
(*   wire    the bytes EncodeRLP wrote, <<>> before it ran                 *)
(*   cut     whether the last byte of wire has been removed                *)
(*   out     the last call and what it returned                            *)
(*   input   the string handed to the identifier parsers                   *)
(*   parsed  the last parser call and what it returned                     *)
(*   heap    the cells allocated so far (heap level)                       *)
(*   held    the references the caller holds, by kind                      *)
(*   lastOp  the last heap-level call: op, receiver, argument, result      *)
(*   ops     the number of heap-level calls made                           *)
(***************************************************************************)
VARIABLES tx, wire, cut, out, input, parsed, heap, held, lastOp, ops

valueVars == <<tx, wire, cut, out>>
parseVars == <<input, parsed>>
heapVars == <<heap, held, lastOp, ops>>
vars == <<tx, wire, cut, out, input, parsed, heap, held, lastOp, ops>>

NoCall == [op |-> "none", arg |-> <<>>, err |-> "", val |-> <<>>]
Call(op, arg, err, val) == [op |-> op, arg |-> arg, err |-> err, val |-> val]

(***************************************************************************)
(* The transactions and clauses the model draws from.                      *)
(***************************************************************************)
LongData == [i \in 1..56 |-> 7]
NonZeroAddress == [i \in 1..AddressLength |-> 240 + i]
NonZeroBytes32 == [i \in 1..Bytes32Length |-> i]

\* NewClause(nil)
EmptyClause == [To |-> None, Value |-> 0, Token |-> 0, Data |-> <<>>]
ZeroToClause == [To |-> Some(ZeroAddress), Value |-> 128, Token |-> 1, Data |-> <<0>>]
BigClause == [To |-> Some(NonZeroAddress), Value |-> 70000, Token |-> 0, Data |-> LongData]
NegativeClause == [To |-> None, Value |-> -1, Token |-> 0, Data |-> <<200>>]
ClauseSet == {EmptyClause, ZeroToClause, BigClause, NegativeClause}

ClauseLists == UNION {[1..n -> ClauseSet] : n \in 0..MaxClauses}

GoodSig == [i \in 1..65 |-> IF i = 65 THEN 1 ELSE 16 + i]
BadSig == [i \in 1..65 |-> IF i = 65 THEN 9 ELSE 16 + i]
SignatureSet == {<<>>, GoodSig, BadSig, <<3>>}

DependsOnSet == {None, Some(Zeros(Bytes32Length)), Some(NonZeroBytes32)}
ReservedSet == {<<>>, <<StrItem(<<1>>)>>, <<ListItem(<<StrItem(<<>>)>>), StrItem(<<0, 200>>)>>}

\* The six integer fields: all low, all high, or every other one high.
Low == [ChainTag |-> 0, BlockRef |-> 1, Expiration |-> 0, GasPriceCoef |-> 127,
        Gas |-> 5, Nonce |-> 0]
High == [ChainTag |-> 200, BlockRef |-> MaxUint64, Expiration |-> MaxUint32,
         GasPriceCoef |-> 128, Gas |-> 21000, Nonce |-> 256]
Mixed == [ChainTag |-> High.ChainTag, BlockRef |-> Low.BlockRef,
          Expiration |-> High.Expiration, GasPriceCoef |-> Low.GasPriceCoef,
          Gas |-> High.Gas, Nonce |-> Low.Nonce]
ScalarProfiles == {Low, High, Mixed}

MakeTx(p, cs, dep, res, sig) ==
    [ChainTag |-> p.ChainTag, BlockRef |-> p.BlockRef, Expiration |-> p.Expiration,
     Clauses |-> cs, GasPriceCoef |-> p.GasPriceCoef, Gas |-> p.Gas,
     DependsOn |-> dep, Nonce |-> p.Nonce, Reserved |-> res, Signature |-> sig]

TxSet ==
    {MakeTx(p, cs, dep, res, sig) :
        p \in ScalarProfiles, cs \in ClauseLists, dep \in DependsOnSet,
        res \in ReservedSet, sig \in SignatureSet}

ParseIdle == input = <<>> /\ parsed = NoCall

EmptyHeap == [bytes |-> <<>>, ints |-> <<>>, clauses |-> <<>>, lists |-> <<>>, txs |-> <<>>]
NoHandles == [data |-> {}, addrs |-> {}, hashes |-> {}, ints |-> {}, clauses |-> {},
              lists |-> {}, txs |-> {}]
NoOp == [op |-> "none", recv |-> 0, arg |-> 0, ret |-> 0]

HeapIdle == heap = EmptyHeap /\ held = NoHandles /\ lastOp = NoOp /\ ops = 0

(***************************************************************************)
(* Spec: one transaction, hashed, signed, encoded and decoded.             *)
(***************************************************************************)
Init ==
    /\ tx \in TxSet
    /\ wire = <<>>
    /\ cut = FALSE
    /\ out = NoCall
    /\ ParseIdle
    /\ HeapIdle

CallSigningHash ==
    /\ wire = <<>>
    /\ out' = Call("SigningHash", <<>>, "", SigningHash(tx))
    /\ UNCHANGED <<tx, wire, cut, parseVars, heapVars>>

CallSigner ==
    /\ wire = <<>>
    /\ out' = Call("Signer", <<>>, Signer(tx).err, Signer(tx).addr)
    /\ UNCHANGED <<tx, wire, cut, parseVars, heapVars>>

CallID ==
    /\ wire = <<>>
    /\ out' = Call("ID", <<>>, "", ID(tx))
    /\ UNCHANGED <<tx, wire, cut, parseVars, heapVars>>

\* t = t.WithSignature(sig); out keeps the receiver's signing hash.
CallWithSignature ==
    /\ wire = <<>>
    /\ \E sig \in SignatureSet :
        /\ tx' = WithSignature(tx, sig)
        /\ out' = Call("WithSignature", sig, "", SigningHash(tx))
    /\ UNCHANGED <<wire, cut, parseVars, heapVars>>

\* rlp.EncodeToBytes(t)
CallEncode ==
    /\ wire = <<>>
    /\ out.op # "EncodeRLP"
    /\ wire' = EncodeRLP(tx).bytes
    /\ out' = Call("EncodeRLP", <<>>, EncodeRLP(tx).err, <<>>)
    /\ UNCHANGED <<tx, cut, parseVars, heapVars>>

\* The caller drops the last byte of the encoding.
Truncate ==
    /\ wire # <<>>
    /\ ~cut
    /\ out.op = "EncodeRLP"
    /\ wire' = SubSeq(wire, 1, Len(wire) - 1)
    /\ cut' = TRUE
    /\ out' = Call("Truncate", <<>>, "", <<>>)
    /\ UNCHANGED <<tx, parseVars, heapVars>>

Decoded(limited, r) ==
    Call("DecodeRLP", <<limited>>, r.err, IF r.err = "" THEN Some(r.val) ELSE None)

\* rlp.DecodeBytes(wire, new(Transaction)) or rlp.Decode(reader, ...); val is
\* the transaction decoded, None when DecodeRLP returned an error.
CallDecode ==
    /\ wire # <<>>
    /\ out.op \in {"EncodeRLP", "Truncate"}
    /\ \E limited \in BOOLEAN :
        out' = Decoded(limited, DecodeTx(wire, limited))
    /\ UNCHANGED <<tx, wire, cut, parseVars, heapVars>>

Next ==
    \/ CallSigningHash
    \/ CallSigner
    \/ CallID
    \/ CallWithSignature
    \/ CallEncode
    \/ Truncate
    \/ CallDecode

Spec == Init /\ [][Next]_vars

(***************************************************************************)
(* Claims checked under Spec.                                              *)
(***************************************************************************)

\* C1: a transaction whose signature is empty has the all-zero ID, whatever
\* its other fields are.
C1_UnsignedIDIsZero ==
    out.op = "ID" /\ Len(tx.Signature) = 0 => out.val = ZeroBytes32

\* A signature is present and no signer can be recovered from it.
Unrecoverable(t) ==
    Len(t.Signature) > 0 /\ SigToPub(SigningHash(t), t.Signature).err # ""

C5_RoundTrip ==
    out.op = "DecodeRLP" /\ ~cut =>
        /\ out.err = ""
        /\ out.val = Some(tx)

C5_Witness ==
    /\ out.op = "DecodeRLP" /\ ~cut /\ out.err = ""
    /\ Len(wire) > 56
    /\ tx.DependsOn = None
    /\ tx.Clauses = <<EmptyClause, ZeroToClause>>
    /\ tx.Reserved # <<>>
    /\ tx.Signature = GoodSig
    /\ out.val[1].DependsOn = None
    /\ out.val[1].Clauses[1].To = None
    /\ out.val[1].Clauses[2].To = Some(ZeroAddress)

\* The transactions that differ from t in exactly one field other than the
\* signature and that rlp can encode.
Altered(t) ==
    LET others ==
            {[t EXCEPT !.ChainTag = v] : v \in {Low.ChainTag, High.ChainTag}}
            \cup {[t EXCEPT !.BlockRef = v] : v \in {Low.BlockRef, High.BlockRef}}
            \cup {[t EXCEPT !.Expiration = v] : v \in {Low.Expiration, High.Expiration}}
            \cup {[t EXCEPT !.Clauses = v] : v \in ClauseLists}
            \cup {[t EXCEPT !.GasPriceCoef = v] : v \in {Low.GasPriceCoef, High.GasPriceCoef}}
            \cup {[t EXCEPT !.Gas = v] : v \in {Low.Gas, High.Gas}}
            \cup {[t EXCEPT !.DependsOn = v] : v \in DependsOnSet}
            \cup {[t EXCEPT !.Nonce = v] : v \in {Low.Nonce, High.Nonce}}
            \cup {[t EXCEPT !.Reserved = v] : v \in ReservedSet}
    IN {u \in others : u # t /\ TxEncodable(u)}

\* C6: the fields SigningHash hashes are the body's fields, in the body's
\* order, without the signature: WithSignature never changes the signing hash,
\* and a change of any one of the nine other fields changes what is hashed.
C6_SigningHashCoversBody ==
    /\ out.op = "WithSignature" => SigningHash(tx) = out.val
    /\ \A sig \in SignatureSet : SigningHash(WithSignature(tx, sig)) = SigningHash(tx)
    /\ TxEncodable(tx) =>
        /\ SigningFields(tx) = SubSeq(bodyFields(tx), 1, 9)
        /\ bodyFields(tx)[10] = EncString(tx.Signature)
        /\ \A u \in Altered(tx) : SigningHash(u).pre # SigningHash(tx).pre

C6_Witness ==
    /\ out.op = "WithSignature" /\ out.arg = GoodSig /\ tx.Signature = GoodSig
    /\ out.val = SigningHash(WithSignature(tx, <<>>))
    /\ ~out.val.zero
    /\ Len(tx.Clauses) = 2

TruncatedErrors == {"ErrValueTooLarge", "ErrUnexpectedEOF"}

\* C10: decoding a transaction's encoding without its last byte fails with the
\* error of a truncated input and yields no transaction.
C10_TruncationRejected ==
    out.op = "DecodeRLP" /\ cut =>
        /\ out.err \in TruncatedErrors
        /\ out.val = None

C10_Witness ==
    /\ out.op = "DecodeRLP" /\ cut /\ out.val = None
    /\ out.err = "ErrUnexpectedEOF"
    /\ tx.Signature = <<>>

(***************************************************************************)
(* SpecExpiry: IsExpired on transactions at the edges of uint32.           *)
(***************************************************************************)
EdgeWords == {0, 1, MaxUint32 - 1, MaxUint32}

ExpiryTxSet ==
    {MakeTx([Low EXCEPT !.BlockRef = h * Uint32Mod + sfx, !.Expiration = e],
            <<>>, None, <<>>, <<>>) :
        h \in EdgeWords, sfx \in {0, MaxUint32}, e \in EdgeWords}

InitExpiry ==
    /\ tx \in ExpiryTxSet
    /\ wire = <<>>
    /\ cut = FALSE
    /\ out = NoCall
    /\ ParseIdle
    /\ HeapIdle

CallIsExpired ==
    /\ \E blockNum \in 0..MaxUint32 :
        out' = Call("IsExpired", blockNum, "", IsExpired(tx, blockNum))
    /\ UNCHANGED <<tx, wire, cut, parseVars, heapVars>>

NextExpiry == CallIsExpired

SpecExpiry == InitExpiry /\ [][NextExpiry]_vars

\* The height and the expiration of the transaction, as unbounded integers.
Height == tx.BlockRef \div Uint32Mod
Deadline == Height + tx.Expiration

\* C8: IsExpired(n) is true exactly when n > H + E, the sum taken without
\* wraparound: false at H + E, true at H + E + 1, also when H + E does not fit
\* uint32 (then no n is expired).
C8_ExpiredAfterDeadline ==
    out.op = "IsExpired" =>
        /\ out.val = (out.arg > Deadline)
        /\ out.arg = Deadline => out.val = FALSE
        /\ out.arg = Deadline + 1 => out.val = TRUE
        /\ Deadline >= MaxUint32 => out.val = FALSE

C8_Witness ==
    /\ out.op = "IsExpired"
    /\ Height > 0 /\ tx.Expiration > 0
    /\ Deadline >= Uint32Mod
    /\ out.arg > Deadline % Uint32Mod
    /\ out.val = FALSE

(***************************************************************************)
(* SpecParse: a string typed character by character and parsed.            *)
(***************************************************************************)
DefaultTx == MakeTx(Low, <<>>, None, <<>>, <<>>)

ValueIdle == tx = DefaultTx /\ wire = <<>> /\ cut = FALSE /\ out = NoCall

InitParse ==
    /\ ValueIdle
    /\ input = <<>>
    /\ parsed = NoCall
    /\ HeapIdle

Type ==
    /\ Len(input) < MaxStrLen
    /\ \E c \in Alphabet : input' = Append(input, c)
    /\ parsed' = NoCall
    /\ UNCHANGED <<valueVars, heapVars>>

CallParseAddress ==
    /\ parsed' = Call("ParseAddress", <<>>, ParseAddress(input).err, ParseAddress(input).val)
    /\ UNCHANGED <<input, valueVars, heapVars>>

CallParseBytes32 ==
    /\ parsed' = Call("ParseBytes32", <<>>, ParseBytes32(input).err, ParseBytes32(input).val)
    /\ UNCHANGED <<input, valueVars, heapVars>>

NextParse ==
    \/ Type
    \/ CallParseAddress
    \/ CallParseBytes32

SpecParse == InitParse /\ [][NextParse]_vars

IsHex(s) == \A i \in 1..Len(s) : s[i] \in {"0", "a", "A"}
Has0x(s) == Len(s) >= 2 /\ s[1] = "0" /\ s[2] \in {"x", "X"}
\* s without its 0x, when it starts with one.
Digits(s) == IF Has0x(s) THEN SubSeq(s, 3, Len(s)) ELSE s
\* The bytes that 2n hex digits denote.
ByteOf(hi, lo) ==
    16 * (IF hi = "0" THEN 0 ELSE 10) + (IF lo = "0" THEN 0 ELSE 10)
BytesOfDigits(d) == [i \in 1..(Len(d) \div 2) |-> ByteOf(d[2 * i - 1], d[2 * i])]

\* s without its first two characters when it is two longer than 2w digits.
Stripped(s, w) == IF Len(s) = 2 * w + 2 THEN SubSeq(s, 3, Len(s)) ELSE s

\* What the claim expects of a parser of width w on s.  A prefix is present
\* when s is two characters longer than 2w digits, and the stripped length is
\* the length without them: "0x" followed by 2w - 2 digits is 2w characters
\* without prefix, of which "x" is not a hex digit.
Expected(s, w) ==
    IF Len(Stripped(s, w)) # 2 * w THEN [err |-> "invalid length", val |-> <<>>]
    ELSE IF Len(s) = 2 * w + 2 /\ ~Has0x(s) THEN [err |-> "invalid prefix", val |-> <<>>]
    ELSE IF ~IsHex(Stripped(s, w)) THEN [err |-> "InvalidByteError", val |-> <<>>]
    ELSE [err |-> "", val |-> BytesOfDigits(Stripped(s, w))]

WidthOf(op) == IF op = "ParseAddress" THEN AddressLength ELSE Bytes32Length

Ret(h, ref) == [h |-> h, ref |-> ref]

NewBytes(h, v) == Ret([h EXCEPT !.bytes = Append(@, v)], Len(h.bytes) + 1)
NewInt(h, v) == Ret([h EXCEPT !.ints = Append(@, v)], Len(h.ints) + 1)
NewClauseCell(h, c) == Ret([h EXCEPT !.clauses = Append(@, c)], Len(h.clauses) + 1)
NewList(h, l) == Ret([h EXCEPT !.lists = Append(@, l)], Len(h.lists) + 1)
NewTx(h, t) == Ret([h EXCEPT !.txs = Append(@, t)], Len(h.txs) + 1)

\* cpy := *p; &cpy, nil for nil
CopyPointer(h, ref) == IF ref = 0 THEN Ret(h, 0) ELSE NewBytes(h, h.bytes[ref])

\* append([]byte(nil), b...): nil for an empty b
CopyBytes(h, ref) ==
    IF ref = 0 \/ h.bytes[ref] = <<>> THEN Ret(h, 0) ELSE NewBytes(h, h.bytes[ref])

\* new(big.Int).Set(v)
CopyInt(h, ref) == NewInt(h, h.ints[ref])

ClauseWith(r, to, value, token, data) ==
    NewClauseCell(r.h, [To |-> to, Value |-> value, Token |-> token, Data |-> data])

\* NewClause(to)
NewClause(h, to) ==
    ClauseWith(NewInt(CopyPointer(h, to).h, 0), CopyPointer(h, to).ref,
               Len(CopyPointer(h, to).h.ints) + 1, 0, 0)

\* Clause.WithValue: a copy of the struct with a copy of value.
WithValue(h, c, value) ==
    ClauseWith(CopyInt(h, value), h.clauses[c].To, CopyInt(h, value).ref,
               h.clauses[c].Token, h.clauses[c].Data)

\* Mutant of WithData: the new clause keeps the caller's slice.
WithDataAliased(h, c, data) ==
    ClauseWith(Ret(h, 0), h.clauses[c].To, h.clauses[c].Value, h.clauses[c].Token, data)

\* Clause.WithData: a copy of the struct with a copy of data.
WithData(h, c, data) ==
    ClauseWith(CopyBytes(h, data), h.clauses[c].To, h.clauses[c].Value,
               h.clauses[c].Token, CopyBytes(h, data).ref)

\* Clause.WithToken
WithToken(h, c, token) ==
    ClauseWith(Ret(h, 0), h.clauses[c].To, h.clauses[c].Value, token, h.clauses[c].Data)

\* Clause.To, Clause.Value, Clause.Data: copies.
To(h, c) == CopyPointer(h, h.clauses[c].To)
Value(h, c) == CopyInt(h, h.clauses[c].Value)
Data(h, c) == CopyBytes(h, h.clauses[c].Data)

\* The cells of a decoded clause body v, allocated afresh.
FreshBody(h, v) ==
    LET h1 == IF v.To = None THEN Ret(h, 0) ELSE NewBytes(h, v.To[1])
        h2 == NewInt(h1.h, v.Value)
        h3 == NewBytes(h2.h, v.Data)
    IN Ret(h3.h, [To |-> h1.ref, Value |-> h2.ref, Token |-> v.Token, Data |-> h3.ref])

\* Clause.DecodeRLP on the clause at c, reading b: *c = Clause{body}, or the
\* error and c as it was.
ClauseDecodeInPlace(h, c, r) ==
    IF r.err # "" THEN Ret(h, 0)
    ELSE Ret([FreshBody(h, r.val).h EXCEPT !.clauses[c] = FreshBody(h, r.val).ref], c)

\* Transaction.WithSignature: a copy of the struct with a copy of sig.
TxWithSignature(h, t, sig) ==
    NewTx(CopyBytes(h, sig).h, [h.txs[t] EXCEPT !.Signature = CopyBytes(h, sig).ref])

\* Transaction.Clauses: append([]*Clause(nil), t.body.Clauses...)
Clauses(h, t) ==
    IF h.txs[t].Clauses = 0 \/ h.lists[h.txs[t].Clauses] = <<>> THEN Ret(h, 0)
    ELSE NewList(h, h.lists[h.txs[t].Clauses])

\* Transaction.DependsOn, Transaction.Signature: copies.
DependsOn(h, t) == CopyPointer(h, h.txs[t].DependsOn)
Signature(h, t) == CopyBytes(h, h.txs[t].Signature)

\* What a clause and a transaction hold once every reference is followed.
ClauseValue(h, c) ==
    [To |-> IF h.clauses[c].To = 0 THEN None ELSE Some(h.bytes[h.clauses[c].To]),
     Value |-> h.ints[h.clauses[c].Value],
     Token |-> h.clauses[c].Token,
     Data |-> IF h.clauses[c].Data = 0 THEN <<>> ELSE h.bytes[h.clauses[c].Data]]

ListValue(h, l) ==
    IF l = 0 THEN <<>> ELSE [i \in 1..Len(h.lists[l]) |-> ClauseValue(h, h.lists[l][i])]

TxValue(h, t) ==
    [ChainTag |-> h.txs[t].ChainTag, BlockRef |-> h.txs[t].BlockRef,
     Expiration |-> h.txs[t].Expiration,
     Clauses |-> ListValue(h, h.txs[t].Clauses),
     GasPriceCoef |-> h.txs[t].GasPriceCoef, Gas |-> h.txs[t].Gas,
     DependsOn |-> IF h.txs[t].DependsOn = 0 THEN None
                   ELSE Some(h.bytes[h.txs[t].DependsOn]),
     Nonce |-> h.txs[t].Nonce, Reserved |-> h.txs[t].Reserved,
     Signature |-> IF h.txs[t].Signature = 0 THEN <<>>
                   ELSE h.bytes[h.txs[t].Signature]]

\* Everything the accessors, SigningHash, ID and EncodeRLP return for t.
Observe(h, t) ==
    [body |-> TxValue(h, t),
     blockRef |-> BlockRef(TxValue(h, t)),
     signingHash |-> SigningHash(TxValue(h, t)),
     id |-> ID(TxValue(h, t)),
     encoding |-> EncodeRLP(TxValue(h, t))]

(***************************************************************************)
(* SpecHeap: a caller holding one transaction of two clauses, a byte       *)
(* buffer, an address and a big.Int of its own, making at most MaxOps      *)
(* calls and writes.                                                       *)
(***************************************************************************)
MaxOps == 3

CallerData == <<1, 2>>

\* buf[0] = 99
Overwrite(buf) == [buf EXCEPT ![1] = 99]

\* Cells 1..4 of bytes, 1..2 of ints, both clauses, the list and the
\* transaction belong to the transaction; the caller holds bytes 5 and 6 and
\* int 3.
InitialHeap ==
    [bytes |-> <<NonZeroAddress, <<7>>, NonZeroBytes32, GoodSig, CallerData, ZeroAddress>>,
     ints |-> <<5, 0, -1>>,
     clauses |-> <<[To |-> 1, Value |-> 1, Token |-> 0, Data |-> 2],
                   [To |-> 0, Value |-> 2, Token |-> 1, Data |-> 0]>>,
     lists |-> << <<1, 2>> >>,
     txs |-> <<[ChainTag |-> Low.ChainTag, BlockRef |-> High.BlockRef,
                Expiration |-> Low.Expiration, Clauses |-> 1,
                GasPriceCoef |-> Low.GasPriceCoef, Gas |-> Low.Gas,
                DependsOn |-> 3, Nonce |-> Low.Nonce, Reserved |-> <<>>,
                Signature |-> 4]>>]

InitialHandles ==
    [data |-> {5}, addrs |-> {6}, hashes |-> {}, ints |-> {3}, clauses |-> {},
     lists |-> {}, txs |-> {1}]

InitHeap ==
    /\ ValueIdle
    /\ ParseIdle
    /\ heap = InitialHeap
    /\ held = InitialHandles
    /\ lastOp = NoOp
    /\ ops = 0

\* The caller's handles once it also holds ref as a kind.
Hold(kind, ref) == IF ref = 0 THEN held ELSE [held EXCEPT ![kind] = @ \cup {ref}]

\* A call or write that leaves the heap r.h and the caller with handles h.
Step(op, recv, arg, r, h) ==
    /\ ops < MaxOps
    /\ heap' = r.h
    /\ held' = h
    /\ lastOp' = [op |-> op, recv |-> recv, arg |-> arg, ret |-> r.ref]
    /\ ops' = ops + 1
    /\ UNCHANGED <<valueVars, parseVars>>

CallNewClause ==
    \E to \in {0} \cup held.addrs :
        Step("NewClause", 0, to, NewClause(heap, to),
             Hold("clauses", NewClause(heap, to).ref))

CallWithValue ==
    \E c \in held.clauses, value \in held.ints :
        Step("WithValue", c, value, WithValue(heap, c, value),
             Hold("clauses", WithValue(heap, c, value).ref))

CallWithData ==
    \E c \in held.clauses, data \in {0} \cup held.data :
        Step("WithData", c, data, WithData(heap, c, data),
             Hold("clauses", WithData(heap, c, data).ref))

CallWithToken ==
    \E c \in held.clauses :
        Step("WithToken", c, 1, WithToken(heap, c, 1),
             Hold("clauses", WithToken(heap, c, 1).ref))

CallTo ==
    \E c \in held.clauses :
        Step("To", c, 0, To(heap, c), Hold("addrs", To(heap, c).ref))

CallValue ==
    \E c \in held.clauses :
        Step("Value", c, 0, Value(heap, c), Hold("ints", Value(heap, c).ref))

CallData ==
    \E c \in held.clauses :
        Step("Data", c, 0, Data(heap, c), Hold("data", Data(heap, c).ref))

\* The streams handed to Clause.DecodeRLP: a clause's encoding, whole and cut.
DecodeInputs ==
    {ClauseEncodeRLP(ZeroToClause),
     SubSeq(ClauseEncodeRLP(ZeroToClause), 1, Len(ClauseEncodeRLP(ZeroToClause)) - 1)}

\* c.DecodeRLP(rlp.NewStream(bytes.NewReader(b), uint64(len(b))))
CallClauseDecodeRLP ==
    \E c \in held.clauses, b \in DecodeInputs :
        Step("ClauseDecodeRLP", c, Len(b),
             ClauseDecodeInPlace(heap, c, ClauseDecodeRLP([b |-> b, limited |-> TRUE], 1, 0)),
             held)

CallTxWithSignature ==
    \E t \in held.txs, sig \in {0} \cup held.data :
        Step("WithSignature", t, sig, TxWithSignature(heap, t, sig),
             Hold("txs", TxWithSignature(heap, t, sig).ref))

\* cs := t.Clauses(): the caller holds the new slice and the pointers in it.
CallClauses ==
    \E t \in held.txs :
        Step("Clauses", t, 0, Clauses(heap, t),
             IF Clauses(heap, t).ref = 0 THEN held
             ELSE [held EXCEPT !.lists = @ \cup {Clauses(heap, t).ref},
                               !.clauses = @ \cup
                                   {heap.lists[heap.txs[t].Clauses][i] :
                                       i \in 1..Len(heap.lists[heap.txs[t].Clauses])}])

CallDependsOn ==
    \E t \in held.txs :
        Step("DependsOn", t, 0, DependsOn(heap, t), Hold("hashes", DependsOn(heap, t).ref))

CallSignature ==
    \E t \in held.txs :
        Step("Signature", t, 0, Signature(heap, t), Hold("data", Signature(heap, t).ref))

\* br := t.BlockRef(): an array, returned by value.
CallBlockRef ==
    \E t \in held.txs :
        Step("BlockRef", t, 0, NewBytes(heap, BlockRef(TxValue(heap, t))),
             Hold("hashes", Len(heap.bytes) + 1))

\* The caller writes to the first byte of a buffer it holds.
WriteBuf ==
    \E b \in held.data \cup held.addrs \cup held.hashes :
        /\ heap.bytes[b] # <<>>
        /\ heap.bytes[b] # Overwrite(heap.bytes[b])
        /\ Step("WriteBuf", 0, b, Ret([heap EXCEPT !.bytes[b] = Overwrite(@)], 0), held)

\* v.SetInt64(99), on a big.Int the caller holds.
SetInt ==
    \E v \in held.ints :
        /\ heap.ints[v] # 99
        /\ Step("SetInt", 0, v, Ret([heap EXCEPT !.ints[v] = 99], 0), held)

\* cs[i] = c, on a slice a Clauses() call returned.
SetListElem ==
    \E l \in held.lists, c \in held.clauses :
        \E i \in 1..Len(heap.lists[l]) :
            /\ heap.lists[l][i] # c
            /\ Step("SetListElem", l, c, Ret([heap EXCEPT !.lists[l][i] = c], 0), held)

NextHeap ==
    \/ CallNewClause
    \/ CallWithValue
    \/ CallWithData
    \/ CallWithToken
    \/ CallTo
    \/ CallValue
    \/ CallData
    \/ CallClauseDecodeRLP
    \/ CallTxWithSignature
    \/ CallClauses
    \/ CallDependsOn
    \/ CallSignature
    \/ CallBlockRef
    \/ WriteBuf
    \/ SetInt
    \/ SetListElem

SpecHeap == InitHeap /\ [][NextHeap]_vars

ClauseRefs == 1..Len(heap.clauses)
TxRefs == 1..Len(heap.txs)

\* Every clause and transaction that exists before the step reads the same
\* after it.
Preserved ==
    /\ \A c \in ClauseRefs : ClauseValue(heap', c) = ClauseValue(heap, c)
    /\ \A t \in TxRefs : Observe(heap', t) = Observe(heap, t)

\* C3: WithSignature, WithValue, WithData and WithToken leave every existing
\* transaction and clause reading as before, the receiver included, and a
\* later write by the caller to a buffer or integer it passed as argument
\* leaves every transaction and clause, the new one included, as it was.
C3_FunctionalUpdates ==
    [][lastOp'.op \in {"WithSignature", "WithValue", "WithData", "WithToken",
                       "WriteBuf", "SetInt"} => Preserved]_vars

\* The caller passed its buffer to WithData on a clause of the transaction,
\* then wrote to the buffer: the new clause still reads the bytes passed,
\* and the receiver its own.
C3_Witness ==
    /\ lastOp.op = "WriteBuf" /\ lastOp.arg = 5
    /\ heap.bytes[5] = Overwrite(CallerData)
    /\ \E c \in ClauseRefs : ClauseValue(heap, c).Data = CallerData
    /\ ClauseValue(heap, 1).Data = <<7>>

\* C4, as stated: no write to bytes or integers the accessors returned, no
\* replacement of an element of a returned clause list and no DecodeRLP on a
\* clause of that list changes what SigningHash, the encoding and the
\* accessors of any transaction return.
C4_AccessorsNeverLeak ==
    [][lastOp'.op \in {"WriteBuf", "SetInt", "SetListElem", "ClauseDecodeRLP"} =>
           \A t \in TxRefs : Observe(heap', t) = Observe(heap, t)]_vars

\* C7, as stated: the value of every clause is non-negative.
C7_ValueNonNegative ==
    \A c \in ClauseRefs : ClauseValue(heap, c).Value >= 0
====
